---- MODULE Spec2Model ----
(***************************************************************************)
(* KrunnerBitwarden: the two KRunner D-Bus services (mi_krunner_bwcli.py   *)
(* over the Bitwarden CLI, krunner.py over a SecretService provider) and   *)
(* the vault back ends (bwcli.py, rbwcli.py).                              *)
(*                                                                         *)
(* Python strings are sequences of one-character strings, None is "None"   *)
(* (or 0 for a GLib source id, which GLib numbers from 1), a raised        *)
(* exception is recorded by its class name.  The GLib main loop is single  *)
(* threaded: every handler runs to completion, so each handler is one      *)
(* action.  Time is abstracted: an armed timeout may fire at any moment.   *)
(***************************************************************************)
EXTENDS Integers, Sequences, FiniteSets, TLC

\* ------------------------------------------------------------------ bounds
\* Match submissions per behaviour
MaxQueries == 2
\* GLib source ids handed out per behaviour
MaxTimerId == 3
\* vault commands logged when a back end is driven alone (a login that
\* succeeds takes three of them)
MaxCalls == 4

\* ------------------------------------------------------- program constants
TRIGGER == <<"p", "a", "s", "s", " ">>
STATUS_OK == "ok"
STATUS_LOCKED == "Unlock password manager"
STATUS_NO_SECRETSERVICE == "Found no SecretService password manager"
ACTION_2 == "trigger_shift_alternative"
ICON == "changes-allow-symbolic"
MAX_NR_OF_MATCHES == 4

\* The names bound in the global namespace of mi_krunner_bwcli.py when a
\* handler runs: its imports, its module-level assignments and its classes.
\* A handler that reads any other global name raises NameError.
BwRunnerGlobals ==
    { "os", "logging", "json", "time", "dbus", "DBusGMainLoop", "GLib",
      "clipboard", "Bwcli", "Entry", "cast", "log_init", "log_search",
      "log_secret", "APPNAME", "OBJPATH", "BUSNAME", "IFACE",
      "CLIPBOARD_TIMEOUT", "LOCK_TIMEOUT", "BWCLI_SYNC_TIMEOUT", "TRIGGER",
      "MAX_NR_OF_MATCHES", "ACTION_2", "ICON", "STATUS", "STATUS_OK",
      "STATUS_LOCKED", "STATUS_NO_SECRETSERVICE", "STATUS_NO_USERNAME",
      "MATCH", "MATCH_CB", "Waiting", "Runner" }

\* ---------------------------------------------------------- Python strings
startswith(s, p) == Len(p) <= Len(s) /\ SubSeq(s, 1, Len(p)) = p

\* s[n:]
SliceFrom(s, n) == SubSeq(s, n + 1, Len(s))

IsSpace(c) == c \in {" ", "\t", "\n"}

RECURSIVE lstrip(_)
lstrip(s) == IF s # <<>> /\ IsSpace(Head(s)) THEN lstrip(Tail(s)) ELSE s

RECURSIVE rstrip(_)
rstrip(s) ==
    IF s # <<>> /\ IsSpace(s[Len(s)]) THEN rstrip(SubSeq(s, 1, Len(s) - 1)) ELSE s

strip(s) == rstrip(lstrip(s))

\* ------------------------------------------------------- GLib main context
\* A source is [id, cb]: the id GLib.timeout_add_seconds returned and the
\* handler it dispatches.  Ids come from an increasing counter.
timeout_add(srcs, id, cb) == srcs \cup {[id |-> id, cb |-> cb]}

\* Removing an id that names no source only logs a GLib warning.
source_remove(srcs, id) == {s \in srcs : s.id # id}

\* ------------------------------------------------------------ bwcli.Bwcli
\* self.__session is "None" or "key" (the bytes `bw unlock --raw` printed).
\* Every method is an operator from the session (and what the external
\* process does) to [session, issued, ret, raised]: the session afterwards,
\* the bw commands it ran, its return value, the exception it let escape.
\*
\* What a `bw` process can do: exit non-zero ("exit"), exit 0 printing no
\* JSON ("garbage"), exit 0 printing JSON of the shape the caller reads
\* ("good": an iterable of {id, name} for list, success = true for sync,
\* data.data for list items), or exit 0 printing any other JSON ("other").
ProcOutcomes == {"good", "other", "garbage", "exit"}

\* What the unlock command line can do: its exit status.
LoginOutcomes == {0, 127, 1}

Result(sess, issued, ret, raised) ==
    [session |-> sess, issued |-> issued, ret |-> ret, raised |-> raised]

has_session(sess) == sess # "None"

bw_call(sess, cmd, out) ==
    IF sess = "None" THEN Result(sess, <<>>, "None", "none")
    ELSE IF out = "exit" THEN Result("None", <<cmd>>, "None", "none")
    ELSE IF out = "garbage" THEN Result(sess, <<cmd>>, "None", "JSONDecodeError")
    ELSE Result(sess, <<cmd>>, out, "none")

\* One `for x in self.__call('list', what): cached_names[x['id']] = x['name']`
\* loop: iterating None, or indexing what is not a record, raises TypeError.
cache_loop(sess, what, out) ==
    LET r == bw_call(sess, what, out)
    IN  IF r.raised # "none" THEN r
        ELSE IF r.ret = "good" THEN r
        ELSE Result(r.session, r.issued, r.ret, "TypeError")

cache_ids(sess, c1, c2) ==
    LET r1 == cache_loop(sess, "list collections", c1)
    IN  IF r1.raised # "none" THEN r1
        ELSE LET r2 == cache_loop(r1.session, "list organizations", c2)
             IN  Result(r2.session, r1.issued \o r2.issued, "None", r2.raised)

bw_login(sess, rc, c1, c2) ==
    IF rc = 0
    THEN LET r == cache_ids("key", c1, c2)
         IN  Result(r.session, <<"unlock">> \o r.issued, "None", r.raised)
    ELSE IF rc = 127 THEN Result(sess, <<"unlock">>, "None", "none")
    ELSE Result("None", <<"unlock">>, "None", "none")

bw_sync(sess, out) ==
    IF has_session(sess)
    THEN LET r == bw_call(sess, "sync", out)
         IN  Result(r.session, r.issued,
                    IF r.raised = "none" /\ r.ret = "good" THEN "True" ELSE "False",
                    r.raised)
    ELSE Result(sess, <<>>, "False", "none")

bw_lock(sess, out) ==
    IF has_session(sess)
    THEN bw_call("None", "lock", out)
    ELSE Result(sess, <<>>, "None", "none")

\* `entries` is the ranked list sort_entries builds from a well-formed
\* response; a response without data.data is caught (KeyError) and gives [].
bw_search(sess, out, entries) ==
    LET r == bw_call(sess, "list items --search", out)
    IN  IF r.raised # "none" THEN Result(r.session, r.issued, <<>>, r.raised)
        ELSE IF r.ret = "good" THEN Result(r.session, r.issued, entries, "none")
        ELSE Result(r.session, r.issued, <<>>, "none")

\* ---------------------------------------------------------- rbwcli.Rbwcli
\* The rbw agent holds the lock state; Rbwcli asks it on every call.  `ag`
\* is the agent ("locked" or "unlocked"), `out` whether the rbw process
\* does its work ("ok") or fails ("fail").  A result is
\* [agent, issued, ret, raised]; __call returns (returncode, output).
RbwOutcomes == {"ok", "fail"}

RbwResult(ag, issued, ret, raised) ==
    [agent |-> ag, issued |-> issued, ret |-> ret, raised |-> raised]

\* `rbw unlocked` exits 0 exactly when the agent is unlocked; `rbw lock`
\* locks the agent when it succeeds; `rbw search` has the agent unlocked
\* (asking for the password if it must) when it succeeds; the other
\* commands leave the agent.
rbw_call(ag, cmd, out) ==
    IF out = "fail" THEN RbwResult(ag, <<cmd>>, 1, "none")
    ELSE IF cmd = "unlocked" THEN RbwResult(ag, <<cmd>>, IF ag = "unlocked" THEN 0 ELSE 1, "none")
    ELSE IF cmd = "lock" THEN RbwResult("locked", <<cmd>>, 0, "none")
    ELSE IF cmd = "search" THEN RbwResult("unlocked", <<cmd>>, 0, "none")
    ELSE RbwResult(ag, <<cmd>>, 0, "none")

rbw_has_session(ag, out) ==
    LET r == rbw_call(ag, "unlocked", out)
    IN  RbwResult(r.agent, r.issued, IF r.ret = 0 THEN "True" ELSE "False", "none")

rbw_lock(ag, out) ==
    LET r == rbw_call(ag, "lock", out)
    IN  RbwResult(r.agent, r.issued, "None", "none")

rbw_sync(ag, o1, o2) ==
    LET h == rbw_has_session(ag, o1)
    IN  IF h.ret = "True"
        THEN LET r == rbw_call(h.agent, "sync", o2)
             IN  RbwResult(r.agent, h.issued \o r.issued,
                           IF r.ret = 0 THEN "True" ELSE "False", "none")
        ELSE RbwResult(h.agent, h.issued, "False", "none")

\* run(args="rbw unlock", shell=False): the whole string is the program
\* name, and no program is called "rbw unlock".
rbw_login(ag) == RbwResult(ag, <<>>, "None", "FileNotFoundError")

\* ------------------------------------------------------- secret.py: search
\* A float is a fraction <<numerator, denominator>>, denominator > 0.
GT(a, b) == a[1] * b[2] > b[1] * a[2]
LT(a, b) == GT(b, a)

UpperCase == {"M", "B"}
Cased == UpperCase \cup {"a", "b", "e", "f", "i", "k", "m", "n", "o", "p", "r", "s", "t", "u"}

lower_char(c) == CASE c = "M" -> "m" [] c = "B" -> "b" [] OTHER -> c

lower(s) == [i \in 1..Len(s) |-> lower_char(s[i])]

\* str.islower(): some cased character, and no upper-case one
islower(s) ==
    /\ \E i \in 1..Len(s) : s[i] \in Cased
    /\ \A i \in 1..Len(s) : s[i] \notin UpperCase

count(s, c) == Cardinality({i \in 1..Len(s) : s[i] = c})

Min(x, y) == IF x < y THEN x ELSE y

RECURSIVE SumMin(_, _, _)
SumMin(cs, a, b) ==
    IF cs = {} THEN 0
    ELSE LET c == CHOOSE x \in cs : TRUE
         IN  Min(count(a, c), count(b, c)) + SumMin(cs \ {c}, a, b)

\* difflib.SequenceMatcher(a=a, autojunk=False).set_seq2(b); .quick_ratio():
\* 2.0 * matches / (len(a) + len(b)), 1.0 for two empty strings, where
\* matches counts each element of b while a still has one to pair it with.
quick_ratio(a, b) ==
    IF Len(a) + Len(b) = 0 THEN <<1, 1>>
    ELSE <<2 * SumMin({a[i] : i \in 1..Len(a)}, a, b), Len(a) + Len(b)>>

strfix(search_term, s) == IF islower(search_term) THEN lower(s) ELSE s

\* the floor applied to every prefix match, without the `ratio < 0.8` test
term_ratio_floor_always(search_term, compare_with) ==
    LET c == strfix(search_term, compare_with)
    IN  IF startswith(c, search_term) THEN <<4, 5>> ELSE quick_ratio(search_term, c)

\* the ratio of one comparison, with the prefix floor (lines 136-139)
term_ratio(search_term, compare_with) ==
    LET c == strfix(search_term, compare_with)
        r == quick_ratio(search_term, c)
    IN  IF LT(r, <<4, 5>>) /\ startswith(c, search_term) THEN <<4, 5>> ELSE r

\* the search for a group of the path never finding one
path_index_never(matches, path) == 0

\* the index of the first group of `matches` with this path, 0 if none
path_index(matches, path) ==
    IF \E i \in 1..Len(matches) : matches[i].path = path
    THEN CHOOSE i \in 1..Len(matches) :
            /\ matches[i].path = path
            /\ \A j \in 1..(i - 1) : matches[j].path # path
    ELSE 0

\* one pass of the inner loop body (lines 136-151) for one comparison
add_match(matches, search_term, term, compare_with) ==
    LET ratio == term_ratio(search_term, compare_with)
    IN  IF GT(ratio, <<2, 5>>)
        THEN LET i == path_index(matches, term.path)
                 ms == IF i = 0
                       THEN Append(matches, [path |-> term.path, prio |-> <<0, 1>>, terms |-> <<>>])
                       ELSE matches
                 k == IF i = 0 THEN Len(ms) ELSE i
             IN  [ms EXCEPT ![k].prio = IF LT(@, ratio) THEN ratio ELSE @,
                            ![k].terms = Append(@, term)]
        ELSE matches

RECURSIVE scan_terms(_, _, _)
scan_terms(matches, search_term, terms) ==
    IF terms = <<>> THEN matches
    ELSE LET t == Head(terms)
             m1 == add_match(matches, search_term, t, t.label)
             m2 == add_match(m1, search_term, t, t.value)
         IN  scan_terms(m2, search_term, Tail(terms))

\* an element placed before the ones of equal priority
RECURSIVE insert_desc_before_equal(_, _)
insert_desc_before_equal(sorted, m) ==
    IF sorted = <<>> THEN <<m>>
    ELSE IF ~GT(Head(sorted).prio, m.prio) THEN <<m>> \o sorted
    ELSE <<Head(sorted)>> \o insert_desc_before_equal(Tail(sorted), m)

\* sorted(matches, key=prio, reverse=True): stable, so equal priorities
\* keep their order
RECURSIVE insert_desc(_, _)
insert_desc(sorted, m) ==
    IF sorted = <<>> THEN <<m>>
    ELSE IF GT(m.prio, Head(sorted).prio) THEN <<m>> \o sorted
    ELSE <<Head(sorted)>> \o insert_desc(Tail(sorted), m)

RECURSIVE sort_desc(_)
sort_desc(ms) ==
    IF ms = <<>> THEN <<>>
    ELSE insert_desc(sort_desc(SubSeq(ms, 1, Len(ms) - 1)), ms[Len(ms)])

secret_search(terms, search_term) == sort_desc(scan_terms(<<>>, search_term, terms))

\* seq[:n]
Take(seq, n) == SubSeq(seq, 1, Min(n, Len(seq)))

match_type(prio) ==
    IF GT(prio, <<3, 4>>) THEN 100 ELSE IF GT(prio, <<1, 2>>) THEN 70 ELSE 10

\* ---------------------------------------- bwcli.py / rbwcli.py: the ranking
\* `diff.set_seq2(term) or 0`: set_seq2 stores the string and returns None,
\* so the first argument of max() is 0 whatever the two strings are.
set_seq2_or_0(search_term, term) == <<0, 1>>

\* priority_term(diff, search_term, term)
priority_term(search_term, term) ==
    LET base == set_seq2_or_0(search_term, term)
        floor == IF startswith(term, search_term) THEN <<4, 5>> ELSE <<0, 1>>
    IN  IF GT(floor, base) THEN floor ELSE base

\* An Entry is [username, password, name, attributes, prio, subtext];
\* attributes is the set of strings as a sequence in its iteration order.
Entry(username, password, name, attributes) ==
    [username |-> username, password |-> password, name |-> name,
     attributes |-> attributes, prio |-> <<0, 1>>, subtext |-> <<>>]

\* ' '.join(strs)
RECURSIVE join(_)
join(strs) ==
    IF strs = <<>> THEN <<>>
    ELSE IF Len(strs) = 1 THEN strs[1]
    ELSE strs[1] \o <<" ">> \o join(Tail(strs))

\* sorted(r_a, key=ratio, reverse=True) of the (ratio, attribute) pairs
RECURSIVE insert_ratio(_, _)
insert_ratio(sorted, ra) ==
    IF sorted = <<>> THEN <<ra>>
    ELSE IF GT(ra[1], Head(sorted)[1]) THEN <<ra>> \o sorted
    ELSE <<Head(sorted)>> \o insert_ratio(Tail(sorted), ra)

RECURSIVE sort_ratio(_)
sort_ratio(ras) ==
    IF ras = <<>> THEN <<>>
    ELSE insert_ratio(sort_ratio(SubSeq(ras, 1, Len(ras) - 1)), ras[Len(ras)])

\* priority_entry(diff, search_term, entry, strfix): the entry with prio and
\* subtext set.  attributes always holds the item name, so r_a[0] exists.
priority_entry(search_term, entry) ==
    LET r_a == sort_ratio([i \in 1..Len(entry.attributes) |->
                   <<priority_term(search_term, strfix(search_term, entry.attributes[i])),
                     entry.attributes[i]>>])
        top == Take(r_a, 3)
    IN  [entry EXCEPT !.prio = r_a[1][1],
                      !.subtext = join([i \in 1..Len(top) |-> top[i][2]])]

\* the loop of sort_entries (lines 180-183)
RECURSIVE select_entries(_, _)
select_entries(search_term, entries) ==
    IF entries = <<>> THEN <<>>
    ELSE LET e == priority_entry(search_term, Head(entries))
             rest == select_entries(search_term, Tail(entries))
         IN  IF GT(e.prio, <<2, 5>>) THEN <<e>> \o rest ELSE rest

sort_entries(search_term, entries) == sort_desc(select_entries(search_term, entries))

\* set.add on a set kept in iteration order
set_add(seq, x) == IF \E i \in 1..Len(seq) : seq[i] = x THEN seq ELSE Append(seq, x)

RECURSIVE set_add_all(_, _)
set_add_all(seq, xs) ==
    IF xs = <<>> THEN seq ELSE set_add_all(set_add(seq, Head(xs)), Tail(xs))

Reverse(seq) == [i \in 1..Len(seq) |-> seq[Len(seq) + 1 - i]]

\* A raw record of `bw list items` is [name, login, username, password,
\* uris, collectionIds, organizationId]: login says whether the record has
\* a "login" member, an empty username or password stands for a missing one
\* (the username is a sequence of characters, the password a string), "None"
\* for organizationId null.  cached_names is the set of [id, name] that
\* cache_ids stored.
cached_name(cached_names, id) == (CHOOSE c \in cached_names : c.id = id).name

is_cached(cached_names, id) == \E c \in cached_names : c.id = id

\* lines 135-139 for the collection ids that are cached: [name, attributes]
RECURSIVE add_collections(_, _, _)
add_collections(na, colids, cached_names) ==
    IF colids = <<>> THEN na
    ELSE IF is_cached(cached_names, Head(colids))
    THEN LET colname == cached_name(cached_names, Head(colids))
         IN  add_collections([name |-> na.name \o <<" ">> \o colname,
                              attributes |-> set_add(na.attributes, colname)],
                             Tail(colids), cached_names)
    ELSE add_collections(na, Tail(colids), cached_names)

\* Bwcli.__parse_search for one item: the Entry it yields, as a sequence of
\* zero or one element.  rev: the set iterates in the reverse of the order
\* its elements were added (the order depends on the string hashes).
bw_parse_item(item, cached_names, rev) ==
    IF ~item.login THEN <<>>
    ELSE IF item.username = <<>> /\ item.password = "" THEN <<>>
    ELSE LET a1 == set_add_all(<<item.name>>, item.uris)
             na == add_collections([name |-> item.name, attributes |-> a1],
                                   item.collectionIds, cached_names)
             a3 == IF item.organizationId # "None"
                      /\ is_cached(cached_names, item.organizationId)
                   THEN set_add(na.attributes, cached_name(cached_names, item.organizationId))
                   ELSE na.attributes
         IN  <<Entry(item.username, item.password, na.name,
                     IF rev THEN Reverse(a3) ELSE a3)>>

RECURSIVE bw_parse_search(_, _, _)
bw_parse_search(items, cached_names, rev) ==
    IF items = <<>> THEN <<>>
    ELSE bw_parse_item(Head(items), cached_names, rev)
             \o bw_parse_search(Tail(items), cached_names, rev)

\* Rbwcli.__parse_search: a record without "username" in its data is
\* skipped; Rbwcli.cached_names stays empty (cache_ids is never called).
rbw_parse_item(item, rev) ==
    IF ~item.login \/ item.username = <<>> THEN <<>>
    ELSE LET a == set_add_all(<<item.name>>, item.uris)
         IN  <<Entry(item.username, item.password, item.name,
                     IF rev THEN Reverse(a) ELSE a)>>

RECURSIVE rbw_parse_search(_, _)
rbw_parse_search(items, rev) ==
    IF items = <<>> THEN <<>>
    ELSE rbw_parse_item(Head(items), rev) \o rbw_parse_search(Tail(items), rev)

\* What `rbw search` can do besides "ok" and "fail": exit 0 printing
\* nothing ("empty": __call hands back stderr, whose elements
\* __parse_search skips), or exit 0 printing no JSON ("garbage").
RbwSearchOutcomes == RbwOutcomes \cup {"empty", "garbage"}

\* Rbwcli.search
rbw_search(ag, out, search_term, items, rev) ==
    IF out = "garbage" THEN RbwResult(ag, <<"search">>, <<>>, "JSONDecodeError")
    ELSE IF out = "empty" THEN RbwResult(ag, <<"search">>, <<>>, "none")
    ELSE LET r == rbw_call(ag, "search", out)
         IN  IF r.ret = 0
             THEN RbwResult(r.agent, r.issued,
                            sort_entries(search_term, rbw_parse_search(items, rev)), "none")
             ELSE RbwResult(r.agent, r.issued, <<>>, "none")

\* ------------------------------------------------------------ the runners
VARIABLES
    variant,                \* which program runs: see Init and InitBackend
    session,                \* Bwcli.__session
    cached_names,           \* Bwcli.cached_names, as a set of [id, name]
    agent,                  \* the rbw agent Rbwcli talks to
    wait,                   \* Runner.wait (mi_krunner_bwcli.py)
    clear_clipboard_timer,  \* Runner.clear_clipboard_timer, 0 for None
    refresh_timer,          \* Runner.refresh_timer (krunner.py), 0 for None
    terms,                  \* Runner.terms (krunner.py)
    sources,                \* the armed GLib timeout sources
    nextId,                 \* the next GLib source id
    clipboard,              \* what Klipper holds
    queries,                \* the queries submitted to Match, in order
    cbs,                    \* per query: the replies its callback got
    raised,                 \* per query: the exception Match let escape
    cmdlog,                 \* the vault commands a back end driven alone has run
    last,                   \* the handler that ran last and what it did
    rank                    \* a ranking function called alone: its input and result

vars == <<variant, session, cached_names, agent, wait, clear_clipboard_timer, refresh_timer,
          terms, sources, nextId, clipboard, queries, cbs, raised, cmdlog, last,
          rank>>

\* Runner.wait is None or Waiting(timer, query, cb); cb is the query's index
NoWait == [timer |-> 0, query |-> <<>>, cb |-> 0]

\* one element of the a(sssida{sv}) reply
Tuple6(data, text, type, rel, subtext) ==
    [data |-> data, text |-> text, icon |-> ICON, type |-> type, rel |-> rel,
     subtext |-> subtext]

LockedReply == <<Tuple6(STATUS_LOCKED, STATUS_LOCKED, 80, <<1, 1>>, <<>>)>>

\* json.dumps([username, password]) and json.loads of it, for the
\* credentials of the model
Credentials == {<<"joe", "s3cret">>}

json_dumps(pair) == "[\"" \o pair[1] \o "\", \"" \o pair[2] \o "\"]"

json_loads(text) == CHOOSE pair \in Credentials : json_dumps(pair) = text

\* str(seq): the characters as one string
RECURSIVE cat(_)
cat(s) == IF s = <<>> THEN "" ELSE s[1] \o cat(Tail(s))

\* what `bw list collections` and `bw list organizations` hold
CollectionNames == {[id |-> "col1", name |-> <<"w", "o", "r", "k">>]}
OrganizationNames == {[id |-> "org1", name |-> <<"a", "c", "m", "e">>]}

\* self.cached_names after login: cache_ids runs after an unlock that
\* exited 0, and each loop stores its names when its list is well-formed
names_after_login(cached, rc, c1, c2) ==
    IF rc # 0 \/ c1 # "good" THEN cached
    ELSE IF c2 # "good" THEN cached \cup CollectionNames
    ELSE cached \cup CollectionNames \cup OrganizationNames

Item(name, login, username, password, uris, collectionIds, organizationId) ==
    [name |-> name, login |-> login, username |-> username, password |-> password,
     uris |-> uris, collectionIds |-> collectionIds, organizationId |-> organizationId]

sJoe == <<"j", "o", "e">>
sMart == <<"m", "a", "r", "t">>
sMartin == <<"m", "a", "r", "t", "i", "n">>
sBank == <<"b", "a", "n", "k">>
sBob == <<"b", "o", "b">>

itMart == Item(sMart, TRUE, sJoe, "s3cret", <<>>, <<"col1">>, "None")
itBank == Item(sBank, TRUE, sMart, "pw2", <<sBank \o <<".">> \o sBob>>, <<>>, "org1")
itNote == Item(sMartin, FALSE, <<>>, "", <<>>, <<>>, "None")

\* the item lists a well-formed response of the vault tool can carry
ItemLists == { <<>>, <<itMart>>, <<itBank, itNote, itMart>> }

\* the search terms a back end driven alone is asked for
SearchTerms == {sMart, <<"b", "a">>}

\* the model's queries: "pass" (no trigger: the blank is missing),
\* "pass  " (trigger, blank remainder), "pass mar", "pass mart"
Queries ==
    { <<"p", "a", "s", "s">>,
      TRIGGER \o <<" ">>,
      TRIGGER \o <<"m", "a", "r">>,
      TRIGGER \o <<"m", "a", "r", "t">> }

\* ----------------------------------------- mi_krunner_bwcli.py: Runner.Match
\* What one call does: [calls, wait, sources, nextId, raised]; calls are the
\* callback invocations <<query index, reply>> in order.
MatchOut(calls, w, srcs, nid, exc) ==
    [calls |-> calls, wait |-> w, sources |-> srcs, nextId |-> nid, raised |-> exc]

\* lines 107-115: supersede the waiting query, then install the new one
bw_Match_install(q, id, w, srcs, nid) ==
    LET calls == IF w # NoWait THEN << <<w.cb, <<>>>> >> ELSE <<>>
        srcs1 == IF w # NoWait THEN source_remove(srcs, w.timer) ELSE srcs
    IN  \* line 112 reads BWCLI_CHECK_DELAY before the timer is added and
        \* before self.wait is assigned
        IF "BWCLI_CHECK_DELAY" \notin BwRunnerGlobals
        THEN MatchOut(calls, w, srcs1, nid, "NameError")
        ELSE MatchOut(calls, [timer |-> nid, query |-> q, cb |-> id],
                      timeout_add(srcs1, nid, "search"), nid + 1, "none")

\* the session test of lines 100-101 negated
bw_Match_session_inverted(query, id, sess, w, srcs, nid) ==
    IF has_session(sess)
    THEN MatchOut(<< <<id, LockedReply>> >>, w, srcs, nid, "none")
    ELSE LET q == strip(SliceFrom(query, Len(TRIGGER)))
         IN  IF q = <<>>
             THEN MatchOut(<< <<id, <<>>>> >>, w, srcs, nid, "none")
             ELSE bw_Match_install(q, id, w, srcs, nid)

\* lines 100-115: what Match does with a query that has the trigger
bw_Match_session(query, id, sess, w, srcs, nid) ==
    IF ~has_session(sess)
    THEN MatchOut(<< <<id, LockedReply>> >>, w, srcs, nid, "none")
    ELSE LET q == strip(SliceFrom(query, Len(TRIGGER)))
         IN  IF q = <<>>
             THEN MatchOut(<< <<id, <<>>>> >>, w, srcs, nid, "none")
             ELSE bw_Match_install(q, id, w, srcs, nid)

\* line 98 as `ok([])` without its return: Match goes on to line 100
bw_Match_no_return(query, id, sess, w, srcs, nid) ==
    LET rest == bw_Match_session(query, id, sess, w, srcs, nid)
    IN  IF ~startswith(query, TRIGGER)
        THEN [rest EXCEPT !.calls = << <<id, <<>>>> >> \o @]
        ELSE rest

\* the session test of line 100 placed before the trigger test of line 97
bw_Match_session_first(query, id, sess, w, srcs, nid) ==
    IF ~has_session(sess)
    THEN MatchOut(<< <<id, LockedReply>> >>, w, srcs, nid, "none")
    ELSE IF ~startswith(query, TRIGGER)
    THEN MatchOut(<< <<id, <<>>>> >>, w, srcs, nid, "none")
    ELSE bw_Match_session(query, id, sess, w, srcs, nid)

bw_Match(query, id, sess, w, srcs, nid) ==
    IF ~startswith(query, TRIGGER)
    THEN MatchOut(<< <<id, <<>>>> >>, w, srcs, nid, "none")
    ELSE bw_Match_session(query, id, sess, w, srcs, nid)

\* Runner.search: the debounce timer's handler.  [calls, wait, session,
\* issued, raised]
bw_search_handler(w, sess, out, entries) ==
    IF w = NoWait
    THEN [calls |-> <<>>, wait |-> w, session |-> sess, issued |-> <<>>, raised |-> "none"]
    ELSE LET r == bw_search(sess, out, entries)
             found == Take(r.ret, MAX_NR_OF_MATCHES)
             reply == [i \in 1..Len(found) |->
                          Tuple6(json_dumps(<<cat(found[i].username), found[i].password>>),
                                 found[i].name, match_type(found[i].prio),
                                 found[i].prio, found[i].subtext)]
         IN  IF r.raised # "none"
             THEN [calls |-> <<>>, wait |-> NoWait, session |-> r.session,
                   issued |-> r.issued, raised |-> r.raised]
             ELSE \* self.wait was set to None above and nothing ran since
                  [calls |-> << <<w.cb, reply>> >>, wait |-> NoWait,
                   session |-> r.session, issued |-> r.issued, raised |-> "none"]

\* ------------------------------------------------------ krunner.py: Runner
Term(label, path, attr, value) ==
    [label |-> label, path |-> path, attr |-> attr, value |-> value]

\* what the provider can hold: the Terms get_terms collects from it
TermLists ==
    { <<Term(sMart, "/item/1", "user", sMartin)>>,
      <<Term(sBank, "/item/2", "user", sBob),
        Term(sMart, "/item/1", "user", sMartin),
        Term(sMart, "/item/1", "site", sMart)>> }

\* krunner.py line 33
EXCLUDE_ATTRIBUTES == {"Path", "Notes", "Title", "Uuid"}

\* secret.get_collections over the collections the provider lists:
\* (any_locked_collections, collections).  A collection is [locked,
\* unlock_fails, items]; col.unlock() returns True when the prompt was
\* dismissed.
RECURSIVE get_collections(_, _)
get_collections(cols, unlock) ==
    IF cols = <<>> THEN [any_locked |-> FALSE, collections |-> <<>>]
    ELSE LET col == Head(cols)
             rest == get_collections(Tail(cols), unlock)
         IN  IF col.locked /\ (~unlock \/ col.unlock_fails)
             THEN [rest EXCEPT !.any_locked = TRUE]
             ELSE [rest EXCEPT !.collections = <<col>> \o @]

\* the Terms of one item: one per attribute with a value that is not excluded
RECURSIVE item_terms(_, _, _)
item_terms(item, attributes, exclude_attributes) ==
    IF attributes = <<>> THEN <<>>
    ELSE LET attr == Head(attributes)[1]
             value == Head(attributes)[2]
             rest == item_terms(item, Tail(attributes), exclude_attributes)
         IN  IF value # <<>> /\ attr \notin exclude_attributes
             THEN <<Term(item.label, item.path, attr, value)>> \o rest
             ELSE rest

RECURSIVE items_terms(_, _)
items_terms(items, exclude_attributes) ==
    IF items = <<>> THEN <<>>
    ELSE item_terms(Head(items), Head(items).attributes, exclude_attributes)
            \o items_terms(Tail(items), exclude_attributes)

\* the loop over the collections (lines 88-97); the provider goes away
\* (SecretServiceNotAvailableException) when get_all_items is called on
\* collection number lost, and what was collected before is kept
RECURSIVE collect_terms(_, _, _, _)
collect_terms(collections, exclude_attributes, lost, i) ==
    IF i > Len(collections) \/ i = lost THEN <<>>
    ELSE items_terms(collections[i].items, exclude_attributes)
            \o collect_terms(collections, exclude_attributes, lost, i + 1)

\* secret.get_terms against a provider [reachable, collections, lost]:
\* dbus_init raises SecretServiceNotAvailableException when not reachable
get_terms(provider, exclude_attributes, unlock) ==
    IF ~provider.reachable
    THEN [status |-> STATUS_NO_SECRETSERVICE, terms |-> <<>>]
    ELSE LET gc == get_collections(provider.collections, unlock)
             ts == collect_terms(gc.collections, exclude_attributes, provider.lost, 1)
         IN  IF ts = <<>>
             THEN IF gc.any_locked
                  THEN [status |-> STATUS_LOCKED, terms |-> <<>>]
                  ELSE [status |-> STATUS_NO_SECRETSERVICE, terms |-> <<>>]
             ELSE [status |-> STATUS_OK, terms |-> ts]

\* secret.get_terms as the Runner sees it: (status, terms).  OK with the
\* Terms collected, else Locked or NoProvider with none.
GetTermsOutcomes ==
    {[status |-> STATUS_OK, terms |-> ts] : ts \in TermLists}
        \cup {[status |-> STATUS_LOCKED, terms |-> <<>>],
              [status |-> STATUS_NO_SECRETSERVICE, terms |-> <<>>]}

\* secret.get_secret: (status, bytes)
GetSecretOutcomes ==
    { <<STATUS_OK, "s3cret">>, <<STATUS_OK, "">>, <<STATUS_NO_SECRETSERVICE, "">> }

\* update_terms arming the next staleness timer beside the old one
update_terms_keep_timer(trms, rt, srcs, nid, g) ==
    IF trms = <<>> \/ rt = 0
    THEN [status |-> g.status, terms |-> g.terms, refresh_timer |-> nid,
          sources |-> timeout_add(srcs, nid, "refresh_timeout"),
          nextId |-> nid + 1, raised |-> "none", fetched |-> TRUE]
    ELSE [status |-> "unbound", terms |-> trms, refresh_timer |-> rt, sources |-> srcs,
          nextId |-> nid, raised |-> "UnboundLocalError", fetched |-> FALSE]

\* Runner.update_terms with get_terms returning g
update_terms(trms, rt, srcs, nid, g) ==
    IF trms = <<>> \/ rt = 0
    THEN [status |-> g.status, terms |-> g.terms, refresh_timer |-> nid,
          sources |-> timeout_add(IF rt # 0 THEN source_remove(srcs, rt) ELSE srcs,
                                  nid, "refresh_timeout"),
          nextId |-> nid + 1, raised |-> "none", fetched |-> TRUE]
    ELSE \* `return status` with status never assigned
         [status |-> "unbound", terms |-> trms, refresh_timer |-> rt, sources |-> srcs,
          nextId |-> nid, raised |-> "UnboundLocalError", fetched |-> FALSE]

\* the reply tuple built from one PathPrioMatches (lines 107-131)
secret_tuple(m) ==
    Tuple6(m.path, m.terms[Len(m.terms)].label, match_type(m.prio), m.prio,
           [i \in 1..Len(m.terms) |-> <<m.terms[i].attr, m.terms[i].value>>])

\* Runner.Match: [ret, terms, refresh_timer, sources, nextId, raised, fetched]
secret_Match(query, trms, rt, srcs, nid, g) ==
    LET same(ret) == [ret |-> ret, terms |-> trms, refresh_timer |-> rt, sources |-> srcs,
                      nextId |-> nid, raised |-> "none", fetched |-> FALSE]
    IN  IF ~startswith(query, TRIGGER) THEN same(<<>>)
        ELSE LET q == strip(SliceFrom(query, Len(TRIGGER)))
             IN  IF q = <<>> THEN same(<<>>)
                 ELSE LET need == trms = <<>> \/ rt = 0
                          u == IF need THEN update_terms(trms, rt, srcs, nid, g)
                               ELSE [status |-> STATUS_OK, terms |-> trms,
                                     refresh_timer |-> rt, sources |-> srcs,
                                     nextId |-> nid, raised |-> "none", fetched |-> FALSE]
                          found == Take(secret_search(u.terms, q), MAX_NR_OF_MATCHES)
                          ret == IF u.status = STATUS_LOCKED THEN LockedReply
                                 ELSE IF u.status # STATUS_OK
                                 THEN <<Tuple6(STATUS_LOCKED, u.status, 10, <<1, 10>>, <<>>)>>
                                 ELSE [i \in 1..Len(found) |-> secret_tuple(found[i])]
                      IN  [ret |-> ret, terms |-> u.terms, refresh_timer |-> u.refresh_timer,
                           sources |-> u.sources, nextId |-> u.nextId, raised |-> "none",
                           fetched |-> u.fetched]

\* --------------------------------------------------------------- Runner.Run
\* the clear timer left armed when a new one is added
cancel_clear_skipped(srcs, cct) == srcs

\* the step both Run handlers take on a clear timer that is still noted:
\* GLib.source_remove of it
cancel_clear(srcs, cct) == IF cct # 0 THEN source_remove(srcs, cct) ELSE srcs

\* mi_krunner_bwcli.py Run: [session, clear_clipboard_timer, sources, nextId,
\* clipboard, issued, raised].  The clipboard is [kind, type, value]: what
\* the object handed to clipboard.put stands for, its Python type, itself.
bw_Run(data, action_id, sess, cct, srcs, nid, clip, rc, c1, c2) ==
    LET srcs1 == cancel_clear(srcs, cct)
    IN  IF data = STATUS_LOCKED
        THEN LET r == bw_login(sess, rc, c1, c2)
             IN  [session |-> r.session, clear_clipboard_timer |-> cct, sources |-> srcs1,
                  nextId |-> nid, clipboard |-> clip, issued |-> r.issued,
                  raised |-> r.raised]
        ELSE LET pair == json_loads(data)
             IN  IF action_id = ACTION_2
                 THEN [session |-> sess, clear_clipboard_timer |-> cct, sources |-> srcs1,
                       nextId |-> nid, clipboard |-> [kind |-> "username", type |-> "str",
                                     value |-> pair[1]],
                       issued |-> <<>>, raised |-> "none"]
                 ELSE [session |-> sess, clear_clipboard_timer |-> nid,
                       sources |-> timeout_add(srcs1, nid, "clear_clipboard"),
                       nextId |-> nid + 1,
                       clipboard |-> [kind |-> "password", type |-> "str", value |-> pair[2]],
                       issued |-> <<>>, raised |-> "none"]

\* krunner.py Run: [terms, refresh_timer, clear_clipboard_timer, sources,
\* nextId, clipboard, raised, fetched]
secret_Run(data, trms, rt, cct, srcs, nid, clip, g, gs) ==
    IF data = STATUS_LOCKED
    THEN LET u == update_terms(trms, rt, srcs, nid, g)
         IN  [terms |-> u.terms, refresh_timer |-> u.refresh_timer,
              clear_clipboard_timer |-> cct, sources |-> u.sources, nextId |-> u.nextId,
              clipboard |-> clip, raised |-> u.raised, fetched |-> u.fetched]
    ELSE \* clipboard.put gets what get_secret returned: the (status, bytes) pair
         [terms |-> trms, refresh_timer |-> rt, clear_clipboard_timer |-> nid,
          sources |-> timeout_add(cancel_clear(srcs, cct), nid, "clear_clipboard"),
          nextId |-> nid + 1, clipboard |-> [kind |-> "password", type |-> "tuple", value |-> gs],
          raised |-> "none", fetched |-> FALSE]

\* ------------------------------------------------------------ the actions
\* last.rc is the exit status of the unlock command line the handler ran,
\* NoRc when it ran none; last.out is what the process of a search did
NoRc == -1

Last(op, query, data, act, issued, exc, fetched) ==
    [op |-> op, query |-> query, data |-> data, act |-> act, issued |-> issued,
     raised |-> exc, fetched |-> fetched, ret |-> "None", rc |-> NoRc,
     out |-> "none", preSession |-> session, preAgent |-> agent,
     preArmed |-> \E s \in sources : s.cb = "clear_clipboard"]

RECURSIVE deliver(_, _)
deliver(replies, cs) ==
    IF cs = <<>> THEN replies
    ELSE deliver([replies EXCEPT ![Head(cs)[1]] = Append(@, Head(cs)[2])], Tail(cs))

\* D-Bus method Match(query, ok, _err) of the service that runs
Match(query) ==
    /\ Len(queries) < MaxQueries
    /\ queries' = Append(queries, query)
    /\ IF variant = "bwcli"
       THEN LET o == bw_Match(query, Len(queries) + 1, session, wait, sources, nextId)
            IN  /\ o.nextId <= MaxTimerId + 1
                /\ cbs' = deliver(Append(cbs, <<>>), o.calls)
                /\ raised' = Append(raised, o.raised)
                /\ wait' = o.wait
                /\ sources' = o.sources
                /\ nextId' = o.nextId
                /\ last' = Last("Match", query, "", "", <<>>, o.raised, FALSE)
                /\ UNCHANGED <<terms, refresh_timer>>
       ELSE \E g \in IF terms = <<>> \/ refresh_timer = 0 THEN GetTermsOutcomes
                     ELSE {[status |-> STATUS_OK, terms |-> terms]} :
            LET o == secret_Match(query, terms, refresh_timer, sources, nextId, g)
            IN  /\ o.nextId <= MaxTimerId + 1
                /\ cbs' = Append(cbs, <<o.ret>>)
                /\ raised' = Append(raised, o.raised)
                /\ terms' = o.terms
                /\ refresh_timer' = o.refresh_timer
                /\ sources' = o.sources
                /\ nextId' = o.nextId
                /\ last' = Last("Match", query, "", "", <<>>, o.raised, o.fetched)
                /\ UNCHANGED wait
    /\ UNCHANGED <<variant, session, cached_names, agent, clear_clipboard_timer,
                   clipboard, cmdlog, rank>>

\* What the environment can do during one Run: <<exit status of the unlock
\* command, outcome of `bw list collections`, of `bw list organizations`>>,
\* listing each process only where it is started.
LoginScenarios ==
    {<<0, "good", c2>> : c2 \in ProcOutcomes}
        \cup {<<0, c1, "good">> : c1 \in ProcOutcomes \ {"good"}}
        \cup {<<127, "good", "good">>, <<1, "good", "good">>}

\* D-Bus method Run(data, action_id) of the service that runs
Run(data, action_id) ==
    /\ IF variant = "bwcli"
       THEN \E sc \in IF data = STATUS_LOCKED THEN LoginScenarios
                      ELSE {<<0, "good", "good">>} :
            LET o == bw_Run(data, action_id, session, clear_clipboard_timer, sources,
                            nextId, clipboard, sc[1], sc[2], sc[3])
            IN  /\ o.nextId <= MaxTimerId + 1
                /\ session' = o.session
                /\ cached_names' = IF data = STATUS_LOCKED
                                   THEN names_after_login(cached_names, sc[1], sc[2], sc[3])
                                   ELSE cached_names
                /\ clear_clipboard_timer' = o.clear_clipboard_timer
                /\ sources' = o.sources
                /\ nextId' = o.nextId
                /\ clipboard' = o.clipboard
                /\ last' = [Last("Run", <<>>, data, action_id, o.issued, o.raised, FALSE)
                               EXCEPT !.rc = IF data = STATUS_LOCKED THEN sc[1] ELSE NoRc]
                /\ UNCHANGED <<terms, refresh_timer>>
       ELSE \E g \in IF data = STATUS_LOCKED THEN GetTermsOutcomes
                     ELSE {[status |-> STATUS_LOCKED, terms |-> <<>>]},
               gs \in IF data = STATUS_LOCKED THEN {<<STATUS_OK, "">>}
                      ELSE GetSecretOutcomes :
            LET o == secret_Run(data, terms, refresh_timer, clear_clipboard_timer,
                                sources, nextId, clipboard, g, gs)
            IN  /\ o.nextId <= MaxTimerId + 1
                /\ terms' = o.terms
                /\ refresh_timer' = o.refresh_timer
                /\ clear_clipboard_timer' = o.clear_clipboard_timer
                /\ sources' = o.sources
                /\ nextId' = o.nextId
                /\ clipboard' = o.clipboard
                /\ last' = Last("Run", <<>>, data, action_id, <<>>, o.raised, o.fetched)
                /\ UNCHANGED <<session, cached_names>>
    /\ UNCHANGED <<variant, agent, wait, queries, cbs, raised, cmdlog, rank>>

\* what a D-Bus caller can hand to Run: the data of a reply (the unlock
\* sentinel, dumped credentials, an item path) and an action id
RunInputs ==
    IF variant = "bwcli"
    THEN {<<STATUS_LOCKED, "">>}
             \cup ({json_dumps(c) : c \in Credentials} \X {"", ACTION_2})
    ELSE {STATUS_LOCKED, "/item/1"} \X {""}

\* mi_krunner_bwcli.py refresh_timeout: sync, then arm itself again.
\* [session, refresh_timer, sources, nextId, issued, raised]
bw_refresh_timeout(sess, srcs, nid, out) ==
    LET r == bw_sync(sess, out)
    IN  IF r.raised # "none"
        THEN [session |-> r.session, refresh_timer |-> 0, sources |-> srcs,
              nextId |-> nid, issued |-> r.issued, raised |-> r.raised]
        ELSE [session |-> r.session, refresh_timer |-> nid,
              sources |-> timeout_add(srcs, nid, "refresh_timeout"),
              nextId |-> nid + 1, issued |-> r.issued, raised |-> "none"]

\* The main loop dispatches an armed timeout.  Every handler returns None,
\* so GLib destroys the source after the call.
TimerFire(s) ==
    /\ s \in sources
    /\ IF s.cb = "clear_clipboard"
       THEN /\ clipboard' = [kind |-> "cleared", type |-> "str", value |-> ""]
            /\ clear_clipboard_timer' = 0
            /\ sources' = sources \ {s}
            /\ last' = Last("clear_clipboard", <<>>, "", "", <<>>, "none", FALSE)
            /\ UNCHANGED <<refresh_timer, wait, session, cbs, nextId>>
       ELSE IF s.cb = "refresh_timeout" /\ variant = "secret"
       THEN /\ refresh_timer' = 0
            /\ sources' = sources \ {s}
            /\ last' = Last("refresh_timeout", <<>>, "", "", <<>>, "none", FALSE)
            /\ UNCHANGED <<clipboard, clear_clipboard_timer, wait, session, cbs, nextId>>
       ELSE IF s.cb = "refresh_timeout"
       THEN \E out \in ProcOutcomes :
            LET o == bw_refresh_timeout(session, sources \ {s}, nextId, out)
            IN  /\ o.nextId <= MaxTimerId + 1
                /\ session' = o.session
                /\ refresh_timer' = o.refresh_timer
                /\ sources' = o.sources
                /\ nextId' = o.nextId
                /\ last' = Last("refresh_timeout", <<>>, "", "", o.issued, o.raised, FALSE)
                /\ UNCHANGED <<clipboard, clear_clipboard_timer, wait, cbs>>
       ELSE \E out \in ProcOutcomes, items \in ItemLists, rev \in BOOLEAN :
            LET entries == sort_entries(wait.query,
                                        bw_parse_search(items, cached_names, rev))
                h == bw_search_handler(wait, session, out, entries)
            IN  /\ wait' = h.wait
                /\ session' = h.session
                /\ cbs' = deliver(cbs, h.calls)
                /\ sources' = sources \ {s}
                /\ last' = Last("search", <<>>, "", "", h.issued, h.raised, FALSE)
                /\ UNCHANGED <<clipboard, clear_clipboard_timer, refresh_timer, nextId>>
    /\ UNCHANGED <<variant, cached_names, agent, terms, queries, raised, cmdlog, rank>>

\* no provider answers on the bus
Unreachable == [reachable |-> FALSE, collections |-> <<>>, lost |-> 0]

\* no ranking function is called alone
NoRank == [kind |-> "none", done |-> FALSE, search_term |-> <<>>, candidate |-> <<>>,
           backend |-> "none", items |-> <<>>, cached_names |-> {}, rev |-> FALSE,
           terms |-> <<>>, res |-> <<>>, provider |-> Unreachable, unlock |-> FALSE]

NoLast == [op |-> "init", query |-> <<>>, data |-> "", act |-> "", issued |-> <<>>,
           raised |-> "none", fetched |-> FALSE, ret |-> "None", rc |-> NoRc,
           out |-> "none", preSession |-> "None", preAgent |-> "locked", preArmed |-> FALSE]

\* After Runner.__init__: the bwcli service starts with nothing; the
\* SecretService one has fetched the terms once and armed the staleness timer.
Init ==
    /\ variant \in {"bwcli", "secret"}
    /\ session = "None"
    /\ cached_names = {}
    /\ agent = "locked"
    /\ wait = NoWait
    /\ clear_clipboard_timer = 0
    /\ clipboard = [kind |-> "initial", type |-> "str", value |-> ""]
    /\ queries = <<>>
    /\ cbs = <<>>
    /\ raised = <<>>
    /\ cmdlog = <<>>
    /\ rank = NoRank
    /\ IF variant = "bwcli"
       THEN /\ terms = <<>>
            /\ refresh_timer = 0
            /\ sources = {}
            /\ nextId = 1
            /\ last = NoLast
       ELSE \E g \in GetTermsOutcomes :
            LET u == update_terms(<<>>, 0, {}, 1, g)
            IN  /\ terms = u.terms
                /\ refresh_timer = u.refresh_timer
                /\ sources = u.sources
                /\ nextId = u.nextId
                /\ last = [NoLast EXCEPT !.fetched = TRUE]

Next ==
    \/ \E query \in Queries : Match(query)
    \/ \E in \in RunInputs : Run(in[1], in[2])
    \/ \E s \in sources : TimerFire(s)

Spec == Init /\ [][Next]_vars

\* ------------------------------------------------- a back end driven alone
\* Bwcli or Rbwcli as a library: any of its public methods may be called in
\* any order, and the rbw agent may be locked or unlocked from outside.
Log(issued) ==
    /\ Len(cmdlog) + Len(issued) <= MaxCalls
    /\ cmdlog' = cmdlog \o issued

BackendFrame ==
    UNCHANGED <<variant, wait, clear_clipboard_timer, refresh_timer, terms, sources,
                nextId, clipboard, queries, cbs, raised, rank>>

DoneRc(op, issued, ret, exc, rc) ==
    /\ Log(issued)
    /\ last' = [Last(op, <<>>, "", "", issued, exc, FALSE) EXCEPT !.ret = ret, !.rc = rc]
    /\ BackendFrame

Done(op, issued, ret, exc) == DoneRc(op, issued, ret, exc, NoRc)

BLogin ==
    IF variant = "Bwcli"
    THEN \E sc \in LoginScenarios :
         LET r == bw_login(session, sc[1], sc[2], sc[3])
         IN  /\ session' = r.session
             /\ cached_names' = names_after_login(cached_names, sc[1], sc[2], sc[3])
             /\ UNCHANGED agent
             /\ DoneRc("login", r.issued, r.ret, r.raised, sc[1])
    ELSE LET r == rbw_login(agent)
         IN  /\ agent' = r.agent
             /\ UNCHANGED <<session, cached_names>>
             /\ Done("login", r.issued, r.ret, r.raised)

BLock ==
    IF variant = "Bwcli"
    THEN \E out \in ProcOutcomes :
         LET r == bw_lock(session, out)
         IN  /\ session' = r.session
             /\ UNCHANGED <<agent, cached_names>>
             /\ Done("lock", r.issued, r.ret, r.raised)
    ELSE \E out \in RbwOutcomes :
         LET r == rbw_lock(agent, out)
         IN  /\ agent' = r.agent
             /\ UNCHANGED <<session, cached_names>>
             /\ Done("lock", r.issued, r.ret, r.raised)

BHasSession ==
    IF variant = "Bwcli"
    THEN /\ UNCHANGED <<session, agent, cached_names>>
         /\ Done("has_session", <<>>, IF has_session(session) THEN "True" ELSE "False",
                 "none")
    ELSE \E out \in RbwOutcomes :
         LET r == rbw_has_session(agent, out)
         IN  /\ agent' = r.agent
             /\ UNCHANGED <<session, cached_names>>
             /\ Done("has_session", r.issued, r.ret, r.raised)

BSync ==
    IF variant = "Bwcli"
    THEN \E out \in ProcOutcomes :
         LET r == bw_sync(session, out)
         IN  /\ session' = r.session
             /\ UNCHANGED <<agent, cached_names>>
             /\ Done("sync", r.issued, r.ret, r.raised)
    ELSE \E o1 \in RbwOutcomes, o2 \in RbwOutcomes :
         LET r == rbw_sync(agent, o1, o2)
         IN  /\ agent' = r.agent
             /\ UNCHANGED <<session, cached_names>>
             /\ Done("sync", r.issued, r.ret, r.raised)

\* search(search_term) of the back end, the vault holding `items`
BSearch ==
    \E search_term \in SearchTerms :
        IF variant = "Bwcli"
        THEN \E out \in ProcOutcomes :
             \E items \in IF out = "good" THEN ItemLists ELSE {<<>>} :
             \E rev \in IF out = "good" THEN BOOLEAN ELSE {FALSE} :
             LET r == bw_search(session, out,
                                sort_entries(search_term,
                                             bw_parse_search(items, cached_names, rev)))
             IN  /\ session' = r.session
                 /\ UNCHANGED <<agent, cached_names>>
                 /\ Log(r.issued)
                 /\ last' = [Last("search", search_term, "", "", r.issued, r.raised, FALSE)
                                EXCEPT !.ret = r.ret, !.out = out]
                 /\ BackendFrame
        ELSE \E out \in RbwSearchOutcomes :
             \E items \in IF out = "ok" THEN ItemLists ELSE {<<>>} :
             \E rev \in IF out = "ok" THEN BOOLEAN ELSE {FALSE} :
             LET r == rbw_search(agent, out, search_term, items, rev)
             IN  /\ agent' = r.agent
                 /\ UNCHANGED <<session, cached_names>>
                 /\ Log(r.issued)
                 /\ last' = [Last("search", search_term, "", "", r.issued, r.raised, FALSE)
                                EXCEPT !.ret = r.ret, !.out = out]
                 /\ BackendFrame

\* the user unlocks the rbw agent (pinentry), or it locks itself on timeout
AgentExternal ==
    /\ variant = "Rbwcli"
    /\ agent' = IF agent = "locked" THEN "unlocked" ELSE "locked"
    /\ last' = Last("agent", <<>>, "", "", <<>>, "none", FALSE)
    /\ UNCHANGED <<session, cached_names, cmdlog>>
    /\ BackendFrame

InitBackend ==
    /\ variant \in {"Bwcli", "Rbwcli"}
    /\ session = "None"
    /\ cached_names = {}
    /\ agent = "locked"
    /\ wait = NoWait
    /\ clear_clipboard_timer = 0
    /\ refresh_timer = 0
    /\ terms = <<>>
    /\ sources = {}
    /\ nextId = 1
    /\ clipboard = [kind |-> "initial", type |-> "str", value |-> ""]
    /\ queries = <<>>
    /\ cbs = <<>>
    /\ raised = <<>>
    /\ cmdlog = <<>>
    /\ rank = NoRank
    /\ last = NoLast

NextBackend == BLogin \/ BLock \/ BHasSession \/ BSync \/ BSearch \/ AgentExternal

SpecBackend == InitBackend /\ [][NextBackend]_vars

\* ------------------------------------------- the ranking functions alone
\* secret.search, and sort_entries of bwcli.py and rbwcli.py behind the
\* parser of each, called on inputs drawn by the initial state.
sUMart == <<"M", "a", "r", "t">>
sTram == <<"t", "r", "a", "m">>

RankTerms == {sMart, sUMart, <<"m", "a">>, sBob}

RankStrings ==
    {sMart, sMartin, sUMart, sTram, sBank, sBob, <<>>,
     <<"M", "a", "r", "t", "i", "n">>}

itMartin == Item(sMartin, TRUE, sBob, "pw3", <<sMart \o <<".">> \o sBob>>, <<"col1">>, "org1")
itEmpty == Item(sMart, TRUE, <<>>, "", <<>>, <<>>, "None")

RankItemLists ==
    { <<itMartin, itBank, itMart>>,
      <<itMart, itEmpty, itMartin>>,
      <<itBank, itNote, itMart>>,
      <<itBank>> }

RankTermLists ==
    TermLists \cup
    { <<Term(sMartin, "/item/4", "user", sJoe),
        Term(sMartin, "/item/3", "user", sJoe),
        Term(sMart, "/item/1", "user", sBob),
        Term(sBank, "/item/2", "user", sMart),
        Term(sMartin, "/item/3", "site", sMart)>> }

RankInput(kind, search_term, candidate, backend, items, names, rev, trms) ==
    [kind |-> kind, done |-> FALSE, search_term |-> search_term,
     candidate |-> candidate, backend |-> backend, items |-> items,
     cached_names |-> names, rev |-> rev, terms |-> trms, res |-> <<>>,
     provider |-> Unreachable, unlock |-> FALSE]

SecretItem(label, path, attributes) ==
    [label |-> label, path |-> path, attributes |-> attributes]

Collection(locked, unlock_fails, items) ==
    [locked |-> locked, unlock_fails |-> unlock_fails, items |-> items]

secMart == SecretItem(sMart, "/item/1", << <<"user", sMartin>>, <<"Path", sBank>>,
                                           <<"site", <<>>>> >>)
secBank == SecretItem(sBank, "/item/2", << <<"user", sBob>> >>)
secBare == SecretItem(sBank, "/item/3", << <<"Title", sBank>>, <<"site", <<>>>> >>)

\* the collections a provider can list
RankCollections ==
    { <<>>,
      <<Collection(FALSE, FALSE, <<>>)>>,
      <<Collection(FALSE, FALSE, <<secBare>>)>>,
      <<Collection(FALSE, FALSE, <<secMart, secBank>>)>>,
      <<Collection(TRUE, FALSE, <<secMart>>)>>,
      <<Collection(TRUE, TRUE, <<secMart>>)>>,
      <<Collection(TRUE, TRUE, <<secMart>>), Collection(FALSE, FALSE, <<secBank>>)>>,
      <<Collection(FALSE, FALSE, <<secBank>>), Collection(TRUE, FALSE, <<secMart>>)>> }

Providers ==
    {Unreachable}
        \cup {[reachable |-> TRUE, collections |-> cols, lost |-> k] :
                cols \in RankCollections, k \in 0..2}

GetTermsInput(provider, unlock) ==
    [RankInput("get_terms", <<>>, <<>>, "none", <<>>, {}, FALSE, <<>>)
        EXCEPT !.provider = provider, !.unlock = unlock]

RankInputs ==
    {RankInput("score", q, c, "none", <<>>, {}, FALSE, <<>>) :
        q \in RankTerms, c \in RankStrings}
    \cup {RankInput("sort_entries", q, <<>>, "Bwcli", its, ns, rev, <<>>) :
            q \in RankTerms, its \in RankItemLists,
            ns \in {{}, CollectionNames \cup OrganizationNames}, rev \in BOOLEAN}
    \cup {RankInput("sort_entries", q, <<>>, "Rbwcli", its, {}, rev, <<>>) :
            q \in RankTerms, its \in RankItemLists, rev \in BOOLEAN}
    \cup {RankInput("search", q, <<>>, "none", <<>>, {}, FALSE, ts) :
            q \in RankTerms, ts \in RankTermLists}
    \cup {GetTermsInput(p, u) : p \in Providers, u \in BOOLEAN}

RankFrame ==
    UNCHANGED <<variant, session, cached_names, agent, wait, clear_clipboard_timer,
                refresh_timer, terms, sources, nextId, clipboard, queries, cbs,
                raised, cmdlog, last>>

\* One comparison, as each variant scores it: lines 136-139 of secret.py
\* and priority_term(diff, search_term, strfix(attribute)) of bwcli.py.
RScore ==
    /\ rank.kind = "score" /\ ~rank.done
    /\ LET q == rank.search_term
           c == strfix(q, rank.candidate)
       IN  rank' = [rank EXCEPT !.done = TRUE,
                                !.res = [secret_base |-> quick_ratio(q, c),
                                         secret |-> term_ratio(q, rank.candidate),
                                         bw_base |-> set_seq2_or_0(q, c),
                                         bw |-> priority_term(q, c)]]
    /\ RankFrame

\* sort_entries(search_term, self.__parse_search(items)): res.parsed are the
\* Entries the parser yields with priority_entry applied, res.ranked the
\* list returned.
RSortEntries ==
    /\ rank.kind = "sort_entries" /\ ~rank.done
    /\ LET q == rank.search_term
           parsed == IF rank.backend = "Bwcli"
                     THEN bw_parse_search(rank.items, rank.cached_names, rank.rev)
                     ELSE rbw_parse_search(rank.items, rank.rev)
       IN  rank' = [rank EXCEPT !.done = TRUE,
                                !.res = [parsed |-> [i \in 1..Len(parsed) |->
                                                        priority_entry(q, parsed[i])],
                                         ranked |-> sort_entries(q, parsed)]]
    /\ RankFrame

\* secret.search(terms, search_term)
RSearch ==
    /\ rank.kind = "search" /\ ~rank.done
    /\ rank' = [rank EXCEPT !.done = TRUE,
                            !.res = secret_search(rank.terms, rank.search_term)]
    /\ RankFrame

\* secret.get_terms(EXCLUDE_ATTRIBUTES, unlock=unlock)
RGetTerms ==
    /\ rank.kind = "get_terms" /\ ~rank.done
    /\ rank' = [rank EXCEPT !.done = TRUE,
                            !.res = get_terms(rank.provider, EXCLUDE_ATTRIBUTES,
                                              rank.unlock)]
    /\ RankFrame

InitRank ==
    /\ variant = "rank"
    /\ session = "None"
    /\ cached_names = {}
    /\ agent = "locked"
    /\ wait = NoWait
    /\ clear_clipboard_timer = 0
    /\ refresh_timer = 0
    /\ terms = <<>>
    /\ sources = {}
    /\ nextId = 1
    /\ clipboard = [kind |-> "initial", type |-> "str", value |-> ""]
    /\ queries = <<>>
    /\ cbs = <<>>
    /\ raised = <<>>
    /\ cmdlog = <<>>
    /\ last = NoLast
    /\ rank \in RankInputs

NextRank == RScore \/ RSortEntries \/ RSearch \/ RGetTerms

SpecRank == InitRank /\ [][NextRank]_vars

\* ------------------------------------------------------------- properties
ClearTimers == {s \in sources : s.cb = "clear_clipboard"}

\* the query the last Match got, as Match reads it
HasTrigger(query) == startswith(query, TRIGGER)
Remainder(query) == strip(SliceFrom(query, Len(TRIGGER)))
WellFormed(query) == HasTrigger(query) /\ Remainder(query) # <<>>

\* the last handler was a Match that the bwcli service accepted: trigger,
\* non-empty remainder, usable session
AcceptedLast ==
    /\ variant = "bwcli"
    /\ last.op = "Match"
    /\ WellFormed(last.query)
    /\ has_session(last.preSession)

\* this step is a Match call
MatchStep == Len(queries') = Len(queries) + 1

\* C1: the result callback of every submitted query has been invoked at
\* most once, whatever Match calls and timer firings followed it.
C1_CallbackAtMostOnce == \A i \in 1..Len(cbs) : Len(cbs[i]) <= 1

\* C1 witness: a query whose callback was invoked once, followed by a later
\* well-formed query submitted to the bwcli service with a usable session.
C1_Witness ==
    /\ AcceptedLast
    /\ Len(queries) >= 2
    /\ Len(cbs[1]) = 1

\* C2: a query Match has just accepted is the pending query, behind an
\* armed debounce timer (so that its callback can be invoked later).
C2_AcceptedIsPending ==
    AcceptedLast =>
        /\ wait.cb = Len(queries)
        /\ \E s \in sources : s.id = wait.timer /\ s.cb = "search"
        /\ raised[Len(queries)] = "none"

\* C3: when Match accepts a query right after accepting another one, whose
\* callback has not been invoked yet, the earlier callback is invoked with
\* an empty list, exactly once.
C3_SupersededGetsEmpty ==
    [][(MatchStep /\ AcceptedLast /\ AcceptedLast' /\ cbs[Len(queries)] = <<>>)
          => cbs'[Len(queries)] = << <<>> >>]_vars

\* C4: while a password copied by Run is on the clipboard, a clear timer is
\* armed.
C4_PasswordHasClearPending == clipboard.kind = "password" => ClearTimers # {}

\* C5: at most one clipboard-clear timer is armed.
C5_AtMostOneClearTimer == Cardinality(ClearTimers) <= 1

\* C5 witness: Run copied a password while a clear timer was armed, and one
\* clear timer is armed now.
C5_Witness ==
    /\ last.op = "Run"
    /\ last.data # STATUS_LOCKED
    /\ last.act = ""
    /\ last.preArmed
    /\ Cardinality(ClearTimers) = 1

\* C6: Match on a query without the trigger replies with an empty list at
\* once, fetches nothing from the back end and leaves the session, the
\* pending query, every timer, the cached terms and the clipboard as they
\* were.
C6_NoTriggerIsInert ==
    [][(MatchStep /\ ~HasTrigger(queries'[Len(queries')]))
          => /\ cbs' = Append(cbs, << <<>> >>)
             /\ raised'[Len(queries')] = "none"
             /\ last'.fetched = FALSE
             /\ last'.issued = <<>>
             /\ UNCHANGED <<session, wait, sources, nextId, clear_clipboard_timer,
                            refresh_timer, terms, clipboard>>]_vars

\* C6 witness: a query without the trigger was answered by the bwcli service
\* while the session was usable and a clear timer armed.
C6_Witness ==
    /\ variant = "bwcli"
    /\ last.op = "Match"
    /\ ~HasTrigger(last.query)
    /\ has_session(session)
    /\ ClearTimers # {}
    /\ cbs[Len(queries)] = << <<>> >>

\* C7: Match on a query with the trigger and an empty remainder replies
\* with an empty list, whatever the session is.
C7_EmptyRemainderGivesEmpty ==
    (last.op = "Match" /\ HasTrigger(last.query) /\ Remainder(last.query) = <<>>)
        => cbs[Len(queries)] = << <<>> >>

\* C8: without a session, Match on a well-formed query replies at once with
\* the one unlock result, installs no pending query, arms no timer and runs
\* no back-end command.
C8_NoSessionGivesSentinel ==
    [][(MatchStep /\ variant = "bwcli" /\ ~has_session(session)
            /\ WellFormed(queries'[Len(queries')]))
          => /\ Len(cbs'[Len(queries')]) = 1
             /\ Len(cbs'[Len(queries')][1]) = 1
             /\ cbs'[Len(queries')][1][1].data = STATUS_LOCKED
             /\ raised'[Len(queries')] = "none"
             /\ last'.issued = <<>>
             /\ UNCHANGED <<session, wait, sources, nextId>>]_vars

\* C8 witness: the bwcli service answered a well-formed query without a
\* session.
C8_Witness ==
    /\ variant = "bwcli"
    /\ last.op = "Match"
    /\ WellFormed(last.query)
    /\ ~has_session(last.preSession)
    /\ cbs[Len(queries)] = <<LockedReply>>

\* what has_session() answers now (for Rbwcli: when `rbw unlocked` runs)
SessionReported ==
    IF variant = "Bwcli" THEN has_session(session)
    ELSE rbw_has_session(agent, "ok").ret = "True"

\* C9: after lock() has returned, has_session() is false.
C9_NoSessionAfterLock == last.op = "lock" => ~SessionReported

\* C10: lock() called with a session runs the lock command of the vault
\* tool.
C10_LockRunsLockCommand ==
    (last.op = "lock" /\ variant = "Bwcli" /\ has_session(last.preSession))
        => \E i \in 1..Len(last.issued) : last.issued[i] = "lock"

\* the session is usable (for Rbwcli: the agent is unlocked) before the
\* last call of a back end driven alone
HadSession ==
    IF variant = "Bwcli" THEN has_session(last.preSession)
    ELSE last.preAgent = "unlocked"

\* C11: a sync() called with a usable session that does not succeed returns
\* False, lets no exception escape and leaves the session usable.
C11_FailedSyncKeepsSession ==
    (last.op = "sync" /\ HadSession /\ last.ret # "True")
        => /\ last.ret = "False"
           /\ last.raised = "none"
           /\ SessionReported

\* C12: while the bwcli service holds a session, a timer that will call
\* sync() is armed.
C12_SyncTimerWhileUnlocked ==
    (variant = "bwcli" /\ has_session(session))
        => \E s \in sources : s.cb = "refresh_timeout"

\* C13: Bwcli.login() called without a session leaves a usable session
\* exactly when the unlock command line exited with status 0.
C13_LoginSessionIffExitZero ==
    (variant = "Bwcli" /\ last.op = "login" /\ ~has_session(last.preSession))
        => (has_session(session) <=> last.rc = 0)

\* C14: a Bwcli.search called with a session whose process exits non-zero
\* or prints a malformed response returns no results, lets no exception
\* escape and leaves no session.
C14_FailedSearchDropsSession ==
    (variant = "Bwcli" /\ last.op = "search" /\ has_session(last.preSession)
        /\ last.out # "good")
        => /\ last.raised = "none"
           /\ last.ret = <<>>
           /\ ~has_session(session)

\* C15: login, sync, lock, has_session and search of Bwcli complete without
\* an exception escaping, whatever the processes of the vault tool do.
C15_NoUnhandledException ==
    (variant = "Bwcli" /\ last.op \in {"login", "sync", "lock", "has_session", "search"})
        => last.raised = "none"

\* equality and order of two fractions
EQ(a, b) == a[1] * b[2] = b[1] * a[2]
GE(a, b) == ~LT(a, b)

\* the candidate as it is compared: lower-cased when the query is all
\* lower-case
Folded(query, candidate) ==
    IF islower(query) THEN [i \in 1..Len(candidate) |-> lower_char(candidate[i])]
    ELSE candidate

\* 2 * matches / (len(a) + len(b)), matches the sum over the distinct
\* characters of the smaller of the two occurrence counts
OverlapRatio(a, b) ==
    LET chars == {a[i] : i \in 1..Len(a)} \cup {b[i] : i \in 1..Len(b)}
        occ(s, ch) == Cardinality({i \in 1..Len(s) : s[i] = ch})
        least(ch) == IF occ(a, ch) < occ(b, ch) THEN occ(a, ch) ELSE occ(b, ch)
        sum[S \in SUBSET chars] ==
            IF S = {} THEN 0
            ELSE LET ch == CHOOSE x \in S : TRUE IN least(ch) + sum[S \ {ch}]
    IN  <<2 * sum[chars], Len(a) + Len(b)>>

\* a query was scored against a candidate
Scored == rank.kind = "score" /\ rank.done

\* C16: in every variant the base score of a query against a candidate is
\* 2 * matches / (len(query) + len(candidate)) over the case-folded
\* candidate, so that a candidate equal to the query has base score 1.
C16_BaseScoreIsOverlapRatio ==
    (Scored /\ Len(rank.search_term) + Len(rank.candidate) > 0)
        => LET overlap == OverlapRatio(rank.search_term,
                                       Folded(rank.search_term, rank.candidate))
           IN  /\ EQ(rank.res.secret_base, overlap)
               /\ EQ(rank.res.bw_base, overlap)

\* C17: in every variant a candidate that starts with the query (after the
\* case folding) scores at least 0.8, and the score is never below the
\* base score.
C17_PrefixFloor ==
    Scored
        => /\ startswith(Folded(rank.search_term, rank.candidate), rank.search_term)
                => GE(rank.res.secret, <<4, 5>>) /\ GE(rank.res.bw, <<4, 5>>)
           /\ GE(rank.res.secret, rank.res.secret_base)
           /\ GE(rank.res.bw, rank.res.bw_base)

\* C17 witness: a candidate that starts with the query only after case
\* folding, with a base score below 0.8, was scored 0.8 in both variants.
C17_Witness ==
    /\ Scored
    /\ ~startswith(rank.candidate, rank.search_term)
    /\ startswith(Folded(rank.search_term, rank.candidate), rank.search_term)
    /\ LT(rank.res.secret_base, <<4, 5>>)
    /\ EQ(rank.res.secret, <<4, 5>>)
    /\ EQ(rank.res.bw, <<4, 5>>)

\* sort_entries was called on parsed entries / secret.search on terms
Sorted == rank.kind = "sort_entries" /\ rank.done
Searched == rank.kind = "search" /\ rank.done

\* the place of a returned entry in the enumeration sort_entries was given
EntryIndex(e) == CHOOSE i \in 1..Len(rank.res.parsed) : rank.res.parsed[i] = e

\* the comparisons of secret.search in scan order: <<term index, ratio>>
\* for the label and then the value of each term
Comparisons ==
    [k \in 1..(2 * Len(rank.terms)) |->
        LET i == (k + 1) \div 2
            trm == rank.terms[i]
        IN  [term |-> i, path |-> trm.path,
             ratio |-> term_ratio(rank.search_term,
                                  IF k % 2 = 1 THEN trm.label ELSE trm.value)]]

\* the comparisons that match: ratio > 0.4
Matching == {k \in 1..Len(Comparisons) : GT(Comparisons[k].ratio, <<2, 5>>)}

MatchingOf(path) == {k \in Matching : Comparisons[k].path = path}

\* the first matching comparison of a path: where its group is enumerated
FirstMatch(path) ==
    CHOOSE k \in MatchingOf(path) : \A j \in MatchingOf(path) : k <= j

\* C18: the list sort_entries returns holds exactly the entries of priority
\* above 0.4, in non-increasing order of priority, equal priorities in the
\* order of enumeration; and so does the list of groups secret.search
\* returns, a group being enumerated at its first matching comparison.
C18_RankedAboveThresholdStable ==
    /\ Sorted =>
        LET parsed == rank.res.parsed
            ranked == rank.res.ranked
        IN  /\ \A j \in 1..Len(ranked) :
                    /\ \E i \in 1..Len(parsed) : parsed[i] = ranked[j]
                    /\ GT(ranked[j].prio, <<2, 5>>)
            /\ \A i \in 1..Len(parsed) :
                    GT(parsed[i].prio, <<2, 5>>)
                        => \E j \in 1..Len(ranked) : ranked[j] = parsed[i]
            /\ \A j, k \in 1..Len(ranked) :
                    j < k => /\ GE(ranked[j].prio, ranked[k].prio)
                             /\ EQ(ranked[j].prio, ranked[k].prio)
                                    => EntryIndex(ranked[j]) < EntryIndex(ranked[k])
    /\ Searched =>
        LET groups == rank.res
        IN  /\ \A j \in 1..Len(groups) :
                    /\ MatchingOf(groups[j].path) # {}
                    /\ GT(groups[j].prio, <<2, 5>>)
            /\ \A k \in Matching :
                    \E j \in 1..Len(groups) : groups[j].path = Comparisons[k].path
            /\ \A j, k \in 1..Len(groups) :
                    j < k => /\ GE(groups[j].prio, groups[k].prio)
                             /\ EQ(groups[j].prio, groups[k].prio)
                                    => FirstMatch(groups[j].path) < FirstMatch(groups[k].path)

\* C18 witness: sort_entries dropped an entry and returned two of equal
\* priority.
C18_Witness ==
    /\ Sorted
    /\ Len(rank.res.ranked) >= 2
    /\ Len(rank.res.ranked) < Len(rank.res.parsed)
    /\ EQ(rank.res.ranked[1].prio, rank.res.ranked[2].prio)

\* the largest of a non-empty set of fractions
MaxOf(S) == CHOOSE x \in S : \A y \in S : GE(x, y)

\* every string associated with an entry: its attributes, its username and
\* its display name
EntryStrings(e) ==
    {e.attributes[i] : i \in 1..Len(e.attributes)} \cup {e.username, e.name}

\* C19: the priority sort_entries gives an entry is the largest score of
\* the query against any string of the entry, its username and its display
\* name included.
C19_PriorityCoversUsername ==
    Sorted =>
        \A i \in 1..Len(rank.res.parsed) :
            LET e == rank.res.parsed[i]
            IN  EQ(e.prio,
                   MaxOf({priority_term(rank.search_term, Folded(rank.search_term, s)) :
                             s \in EntryStrings(e)}))

\* C20: secret.search returns at most one group per item path; the group
\* holds the term of every matching comparison of that path, in scan
\* order, and its priority is the largest ratio among them.
C20_OneGroupPerPath ==
    Searched =>
        LET groups == rank.res
        IN  /\ \A j, k \in 1..Len(groups) : groups[j].path = groups[k].path => j = k
            /\ \A j \in 1..Len(groups) :
                    LET ks == MatchingOf(groups[j].path)
                        nth(n) == CHOOSE k \in ks : Cardinality({x \in ks : x < k}) = n - 1
                    IN  /\ ks # {}
                        /\ EQ(groups[j].prio, MaxOf({Comparisons[k].ratio : k \in ks}))
                        /\ Len(groups[j].terms) = Cardinality(ks)
                        /\ \A n \in 1..Len(groups[j].terms) :
                                groups[j].terms[n] = rank.terms[Comparisons[nth(n)].term]

\* C20 witness: secret.search returned more than one group, one of them
\* folding two Terms of one path that differ in their attribute, with the
\* priority of the better of two unequal ratios.
C20_Witness ==
    /\ Searched
    /\ Len(rank.res) >= 2
    /\ \E j \in 1..Len(rank.res) :
            /\ \E m, n \in 1..Len(rank.res[j].terms) :
                    rank.res[j].terms[m].attr # rank.res[j].terms[n].attr
            /\ \E k \in MatchingOf(rank.res[j].path) :
                    LT(Comparisons[k].ratio, rank.res[j].prio)

\* every result tuple a callback has been handed
DeliveredTuples ==
    UNION {UNION {{cbs[i][j][k] : k \in 1..Len(cbs[i][j])} : j \in 1..Len(cbs[i])} :
           i \in 1..Len(cbs)}

\* the tuples of the SecretService service that stand for an item: their data
\* is the item path, not the unlock sentinel
SecretItemTuples ==
    IF variant # "secret" THEN {}
    ELSE {tup \in DeliveredTuples : tup.data # STATUS_LOCKED}

\* C21: the subtext of an item result of the SecretService service lists at
\* most 3 (attribute, value) pairs, none of them twice.
C21_SubtextTopThreeOnce ==
    \A tup \in SecretItemTuples :
        /\ Len(tup.subtext) <= 3
        /\ \A m, n \in 1..Len(tup.subtext) : tup.subtext[m] = tup.subtext[n] => m = n

\* the match types of the KRunner interface (krunner.py line 121)
MatchTypes == {0, 10, 30, 50, 70, 100}

\* C22: every delivered tuple carries one of the six match types, and an item
\* result carries 100 above 0.75, 70 above 0.5 and 10 otherwise.
C22_MatchTypeInFixedSet ==
    \A tup \in DeliveredTuples :
        /\ tup.type \in MatchTypes
        /\ tup.data # STATUS_LOCKED =>
              tup.type = (IF GT(tup.rel, <<3, 4>>) THEN 100
                          ELSE IF GT(tup.rel, <<1, 2>>) THEN 70 ELSE 10)

\* C23: get_terms returns OK exactly when it collected a Term, Locked exactly
\* when it collected none and found a locked collection, NoProvider exactly
\* when it collected none and no provider was reachable at all.
\* (A locked collection was found when the provider was reached and one of
\* its collections was locked and stayed locked.)
C23_StatusExactlyWhen ==
    (rank.kind = "get_terms" /\ rank.done) =>
        LET cols == rank.provider.collections
            locked_found ==
                /\ rank.provider.reachable
                /\ \E i \in 1..Len(cols) :
                      cols[i].locked /\ (~rank.unlock \/ cols[i].unlock_fails)
        IN  /\ rank.res.status = STATUS_OK <=> rank.res.terms # <<>>
            /\ rank.res.status = STATUS_LOCKED <=>
                  (rank.res.terms = <<>> /\ locked_found)
            /\ rank.res.status = STATUS_NO_SECRETSERVICE <=>
                  (rank.res.terms = <<>> /\ ~rank.provider.reachable)

\* C24: a Run with the unlock sentinel triggers the unlock (login of the
\* vault tool, a fetch of the terms from the provider) and raises nothing.
C24_UnlockAlwaysTriggered ==
    (last.op = "Run" /\ last.data = STATUS_LOCKED) =>
        /\ last.raised = "none"
        /\ variant = "bwcli" => \E i \in 1..Len(last.issued) : last.issued[i] = "unlock"
        /\ variant = "secret" => last.fetched

\* C27: after a Run with an item path the clipboard of the SecretService
\* service holds the secret bytes themselves, and the clear timer is armed.
C27_ClipboardHoldsSecretBytes ==
    (variant = "secret" /\ last.op = "Run" /\ last.data # STATUS_LOCKED) =>
        /\ clipboard.type = "str"
        /\ clipboard.value \in {gs[2] : gs \in GetSecretOutcomes}
        /\ \E s \in ClearTimers : s.id = clear_clipboard_timer

\* C28: the handle of the clear timer is set exactly when a clear timer is
\* armed, and then it is the id of that timer.
C28_HandleIffArmed ==
    /\ clear_clipboard_timer # 0 <=> ClearTimers # {}
    /\ \A s \in ClearTimers : s.id = clear_clipboard_timer

RefreshTimers == {s \in sources : s.cb = "refresh_timeout"}

\* C26: a Match of the SecretService service fetches the terms exactly when
\* it has a query to search for and the cached terms are empty or no
\* staleness timer is noted; a fetch leaves exactly one staleness timer
\* armed, a new one, and notes it; a Match that does not fetch leaves terms
\* and timer alone; the timer firing clears the note, so that the next such
\* Match fetches.
C26_FetchOnlyWhenStale ==
    [][variant = "secret" =>
        /\ MatchStep =>
              /\ last'.fetched <=>
                    (WellFormed(last'.query) /\ (terms = <<>> \/ refresh_timer = 0))
              /\ last'.fetched =>
                    /\ RefreshTimers' = {[id |-> refresh_timer', cb |-> "refresh_timeout"]}
                    /\ \A s \in sources : s.id # refresh_timer'
              /\ ~last'.fetched => UNCHANGED <<terms, refresh_timer, sources>>
        /\ (~MatchStep /\ last'.op = "refresh_timeout") =>
              /\ refresh_timer' = 0
              /\ RefreshTimers' = {}
              /\ UNCHANGED terms]_vars

\* C26 witness: the staleness timer has fired, the terms are still cached,
\* and a second Match, the first having been answered from the cache with
\* an item, has fetched them again.
C26_Witness ==
    /\ variant = "secret"
    /\ last.op = "Match"
    /\ last.fetched
    /\ Len(queries) = 2
    /\ \E tup \in SecretItemTuples : tup \in {cbs[1][1][k] : k \in 1..Len(cbs[1][1])}
    /\ nextId = 3

====
